---- MODULE Spec2Model ----
(***************************************************************************)
(* A state-machine model of static/js/script.js of the Smart Job Portal:   *)
(* the page's DOM state, the requests in flight and one action per event   *)
(* handler or callback.  Text that the code inspects character by          *)
(* character (skills, passwords, e-mail addresses) is a sequence of        *)
(* one-character strings; other text is a TLA+ string.                     *)
(*                                                                         *)
(* The script's features do not interact except through the skill tags     *)
(* and the notification banners, so each feature has its own specification *)
(* (SpecJobs, SpecResume, SpecForm, SpecPoll, SpecPassword, SpecEmail,     *)
(* SpecDaysAgo) over the same variables; the variables of the other        *)
(* features stay at their initial values.                                  *)
(***************************************************************************)
EXTENDS Integers, Sequences, FiniteSets, TLC

VARIABLES
    ready,          \* the $(document).ready callback has run (handlers bound)
    \* ---- load more (script.js 124-139)
    currentPage,    \* let currentPage
    loadMore,       \* the #loadMoreJobs control: [present, disabled, html]
    jobsXhr,        \* GET /api/jobs requests not yet finished: [page, status, jobs]
    jobsLog,        \* the pages asked of /api/jobs, in the order of the requests
    \* ---- skill tags (script.js 80-89, 149-170)
    skillsInputVal, \* value of #skillsInput
    skillTags,      \* text content of each .skill-tag chip of #skillTags, in order
    skillsHidden,   \* value of the hidden #skills field
    \* ---- resume upload and parsing (script.js 60-77, 172-199)
    resumeInput,    \* files[0] of #resumeUpload, or NoFile
    changePending,  \* a change event of #resumeUpload is dispatched, not yet handled
    resumeFileName, \* text of #resumeFileName
    alerts,         \* number of alert() dialogs raised
    parseXhr,       \* POST /api/parse-resume requests not yet finished: [status, data]
    profile,        \* values of #fullName, #email, #phone
    \* ---- notification banners (script.js 201-215)
    notifications,  \* the banners of .notifications, newest first: [type, title, message]
    \* ---- ajax forms (script.js 16-18, 98-121)
    formXhr,        \* POSTs of ajax forms not yet finished: [url, method, status, data]
    submitDisabled, \* the forms whose submit button is disabled
    \* ---- unread-count polling (script.js 142-144, 217-243, 278-280)
    notifSupported, \* window.Notification exists
    permission,     \* Notification.permission
    prompting,      \* Notification.requestPermission() is waiting for the user
    loaded,         \* the window's load handler has run
    polling,        \* setInterval(checkNotifications, 30000) is set
    pollXhr,        \* GET /api/notifications/unread requests not yet finished: [status, count]
    badge,          \* #notificationBadge: [shown, text]
    desktop,        \* the desktop notifications on screen, oldest first: [title, body, icon]
    \* ---- password strength (script.js 34-47)
    passwordVal,    \* value of #password
    keyupPending,   \* a keyup event of #password is dispatched, not yet handled
    strengthBadge,  \* #password-strength: [text, class]
    \* ---- e-mail validation (script.js 21-31)
    emailVal,       \* value of the e-mail field
    emailFocused,   \* the e-mail field has the focus
    emailInvalid,   \* the field carries the class is-invalid
    emailFeedback,  \* text of the .invalid-feedback element next to the field
    \* ---- relative time (script.js 263-275)
    dateArg,        \* the instant daysAgo was last called with: [day, ms]
    nowTime,        \* the clock's instant at that call: [day, ms]
    daysAgoOut      \* what that call returned

jobsVars == <<currentPage, loadMore, jobsXhr, jobsLog>>
tagVars == <<skillsInputVal, skillTags, skillsHidden>>
uploadVars == <<resumeInput, changePending, resumeFileName, alerts>>
parseVars == <<parseXhr, profile>>
formVars == <<formXhr, submitDisabled>>
browserVars == <<notifSupported, permission, prompting, loaded>>
pollVars == <<polling, pollXhr, badge, desktop>>
pwVars == <<passwordVal, keyupPending, strengthBadge>>
emailVars == <<emailVal, emailFocused, emailInvalid, emailFeedback>>
daysVars == <<dateArg, nowTime, daysAgoOut>>

vars == <<ready, jobsVars, tagVars, uploadVars, parseVars, notifications, formVars,
          browserVars, pollVars, pwVars, emailVars, daysVars>>

\* what the actions of one feature leave alone
fieldVars == <<pwVars, emailVars, daysVars>>
OutsideJobs == <<tagVars, uploadVars, parseVars, notifications, formVars,
                 browserVars, pollVars, fieldVars>>
OutsideResume == <<jobsVars, formVars, browserVars, pollVars, fieldVars>>
OutsideForm == <<jobsVars, tagVars, uploadVars, parseVars, browserVars, pollVars, fieldVars>>
OutsidePoll == <<jobsVars, tagVars, uploadVars, parseVars, notifications, formVars, fieldVars>>
OutsideFields == <<jobsVars, tagVars, uploadVars, parseVars, notifications, formVars,
                   browserVars, pollVars>>

----------------------------------------------------------------------------
(* Bounds of the model *)

\* clicks on "load more" are followed up to this page number
MaxPage == 40
\* a /api/jobs response carries 0..MaxJobs jobs
MaxJobs == 2
\* at most this many skill chips are added
MaxTags == 2
\* at most this many parsing requests are in flight
MaxParse == 1
\* at most this many banners are on the page
MaxBanners == 2
\* at most this many form submissions are in flight
MaxForm == 2
\* at most this many unread-count requests are in flight
MaxPoll == 2
\* the unread count of a response is 0..MaxCount
MaxCount == 2
\* at most this many desktop notifications are on screen
MaxDesktop == 2
\* passwords of up to this many characters are typed
MaxPasswordLen == 8
\* e-mail addresses of up to this many characters are typed
MaxEmailLen == 5
\* dates up to this many days before and after the clock's day are passed
MaxElapsedDays == 800
\* at most this many alert() dialogs are followed
MaxAlerts == 1

----------------------------------------------------------------------------
(* The inputs the environment chooses from *)

\* what the user types into #skillsInput
TypedSkills ==
    { <<>>, <<" ", "G", "o", " ">>, <<"R", "u", "s", "t">>, <<"A", "×", "B">> }

\* sizes in bytes of the files the user selects: 0.125 MB, 4.99 MB, 5 MB,
\* 5 MB + 1 byte, the last and first sizes around 5.005 MB, 5.01 MB
FileSizes == {131072, 5232394, 5242880, 5242881, 5248122, 5248123, 5253366}

Files == {[name |-> "cv.pdf", size |-> n] : n \in FileSizes}

\* the data field of a request that has no response yet
NoData ==
    [success |-> FALSE, name |-> "", email |-> "", phone |-> "",
     hasSkills |-> FALSE, skills |-> <<>>]

\* the characters typed into #password: a lower-case letter, an upper-case
\* letter, a digit, a character that is none of these
PasswordChars == {"a", "A", "1", "!"}

\* the characters typed into the e-mail field
EmailChars == {"a", "@", ".", " "}

\* the milliseconds into a day of the instants passed to daysAgo
MsSamples == {0, 1, 43200000, 86399999}

\* the ajax forms of the page
Forms == {"profile", "apply"}

NoFormData == [success |-> FALSE, message |-> ""]

\* responses to an ajax form: { success, message }
FormResponses ==
    [success : BOOLEAN, message : {"Profile saved.", "Name is required."}]

\* responses of /api/parse-resume: { success, name?, email?, phone?, skills? };
\* an absent text field is "", an absent skills field has hasSkills = FALSE
ParseResponses ==
    {NoData} \cup
    {[success |-> TRUE, name |-> p[1], email |-> p[2], phone |-> p[3],
      hasSkills |-> k[1], skills |-> k[2]] :
        p \in { <<"", "", "">>, <<"Ada", "", "">>, <<"Ada", "ada@example.org", "555-0100">> },
        k \in { <<FALSE, <<>> >>, <<TRUE, <<>> >>, <<TRUE, << <<"G", "o">> >> >>,
                <<TRUE, << <<"A", "×", "B">>, <<"G", "o">> >> >> }}

----------------------------------------------------------------------------
(* Load more jobs *)

\* the label the server rendered into the control; the script never reads it
ServerLabel == "(server-rendered)"

LoadingHtml == "<span class=\"spinner-border spinner-border-sm\"></span> Loading..."

\* what the browser does with a click: a control that is gone or disabled
\* dispatches no click event
Clickable(b) == b.present /\ ~b.disabled

ActiveJobs == {i \in 1..Len(jobsXhr) : jobsXhr[i].status \in {"sent", "replied"}}

RemoveAt(s, i) == [k \in 1..(Len(s) - 1) |-> IF k < i THEN s[k] ELSE s[k + 1]]

\* LoadMoreClick without line 128's prop('disabled', true)
LoadMoreClickNoDisable ==
    /\ ready
    /\ Clickable(loadMore)
    /\ currentPage < MaxPage
    /\ currentPage' = currentPage + 1
    /\ loadMore' = [loadMore EXCEPT !.html = LoadingHtml]
    /\ jobsXhr' = Append(jobsXhr, [page |-> currentPage + 1, status |-> "sent", jobs |-> 0])
    /\ jobsLog' = Append(jobsLog, currentPage + 1)
    /\ UNCHANGED <<ready, OutsideJobs>>

\* script.js 125-130: the click handler up to and including $.get
LoadMoreClick ==
    /\ ready
    /\ Clickable(loadMore)
    /\ currentPage < MaxPage
    /\ currentPage' = currentPage + 1
    /\ loadMore' = [loadMore EXCEPT !.disabled = TRUE, !.html = LoadingHtml]
    /\ jobsXhr' = Append(jobsXhr, [page |-> currentPage + 1, status |-> "sent", jobs |-> 0])
    /\ jobsLog' = Append(jobsLog, currentPage + 1)
    /\ UNCHANGED <<ready, OutsideJobs>>

\* the server answers a request with { jobs: [...] } of n entries
JobsReply(i, n) ==
    /\ i \in 1..Len(jobsXhr)
    /\ jobsXhr[i].status = "sent"
    /\ jobsXhr' = [jobsXhr EXCEPT ![i].status = "replied", ![i].jobs = n]
    /\ UNCHANGED <<ready, currentPage, loadMore, jobsLog, OutsideJobs>>

\* the request fails in transport: $.get was given no error callback, so
\* nothing runs; the request stays failed
JobsFail(i) ==
    /\ i \in 1..Len(jobsXhr)
    /\ jobsXhr[i].status = "sent"
    /\ jobsXhr' = [jobsXhr EXCEPT ![i].status = "error"]
    /\ UNCHANGED <<ready, currentPage, loadMore, jobsLog, OutsideJobs>>

\* JobsCallback with line 131's test written data.jobs.length >= 0
JobsCallbackAlwaysMore(i) ==
    /\ i \in 1..Len(jobsXhr)
    /\ jobsXhr[i].status = "replied"
    /\ loadMore' =
         IF jobsXhr[i].jobs >= 0
         THEN [loadMore EXCEPT !.disabled = FALSE, !.html = "Load More"]
         ELSE [loadMore EXCEPT !.present = FALSE]
    /\ jobsXhr' = RemoveAt(jobsXhr, i)
    /\ UNCHANGED <<ready, currentPage, jobsLog, OutsideJobs>>

\* script.js 130-138: the success callback of $.get
JobsCallback(i) ==
    /\ i \in 1..Len(jobsXhr)
    /\ jobsXhr[i].status = "replied"
    /\ loadMore' =
         IF jobsXhr[i].jobs > 0
         THEN [loadMore EXCEPT !.disabled = FALSE, !.html = "Load More"]
         ELSE [loadMore EXCEPT !.present = FALSE]
    /\ jobsXhr' = RemoveAt(jobsXhr, i)
    /\ UNCHANGED <<ready, currentPage, jobsLog, OutsideJobs>>

----------------------------------------------------------------------------
(* Text as sequences of characters *)

\* the characters of the model's alphabet that String.prototype.trim removes
Whitespace == {" "}

\* the multiplication sign U+00D7 that lines 156 and 167 strip
Times == "×"

RECURSIVE TrimLeft(_)
TrimLeft(s) == IF s # <<>> /\ Head(s) \in Whitespace THEN TrimLeft(Tail(s)) ELSE s

RECURSIVE TrimRight(_)
TrimRight(s) ==
    IF s # <<>> /\ s[Len(s)] \in Whitespace
    THEN TrimRight(SubSeq(s, 1, Len(s) - 1))
    ELSE s

\* String.prototype.trim
Trim(s) == TrimRight(TrimLeft(s))

\* String.prototype.replace(c, '') with a string pattern: the first
\* occurrence of c is removed, later ones stay
ReplaceFirst(s, c) ==
    IF \E i \in 1..Len(s) : s[i] = c
    THEN LET i == CHOOSE j \in 1..Len(s) : s[j] = c /\ \A k \in 1..(j - 1) : s[k] # c
         IN  SubSeq(s, 1, i - 1) \o SubSeq(s, i + 1, Len(s))
    ELSE s

\* Array.prototype.join(',')
RECURSIVE Join(_)
Join(texts) ==
    IF texts = <<>> THEN <<>>
    ELSE IF Len(texts) = 1 THEN texts[1]
    ELSE texts[1] \o <<",">> \o Join(Tail(texts))

----------------------------------------------------------------------------
(* Notification banners *)

\* script.js 201-211: showNotification prepends a banner to .notifications
showNotification(list, title, message, type) ==
    <<[type |-> type, title |-> title, message |-> message]>> \o list

\* script.js 214 (and 11-13, and the banner's own close button): a banner
\* is closed
BannerClose(i) ==
    /\ i \in 1..Len(notifications)
    /\ notifications' = RemoveAt(notifications, i)
    /\ UNCHANGED <<ready, jobsVars, tagVars, uploadVars, parseVars, formVars,
                   browserVars, pollVars, fieldVars>>

----------------------------------------------------------------------------
(* Skill tags *)

\* script.js 150: the text content of the chip built for a skill: the
\* skill, a space, and a close button without text
TagText(skill) == skill \o <<" ">>

\* script.js 154-158 and 165-169: the hidden field recomputed from the chips
HiddenOf(tags) ==
    Join([i \in 1..Len(tags) |-> ReplaceFirst(Trim(tags[i]), Times)])

\* script.js 149-159: addSkillTag; the chips after the call (the hidden
\* field is HiddenOf of them)
addSkillTag(tags, skill) == Append(tags, TagText(skill))

\* script.js 189: data.skills.forEach(skill => addSkillTag(skill))
RECURSIVE addSkillTags(_, _)
addSkillTags(tags, skills) ==
    IF skills = <<>> THEN tags
    ELSE addSkillTags(addSkillTag(tags, Head(skills)), Tail(skills))

\* the user edits the text of #skillsInput
TypeSkill(v) ==
    /\ ready
    /\ skillsInputVal' = v
    /\ UNCHANGED <<ready, skillTags, skillsHidden, uploadVars, parseVars,
                   notifications, OutsideResume>>

\* script.js 80-89: keypress in #skillsInput with e.which = which
SkillKeypress(which) ==
    /\ ready
    /\ Len(skillTags) < MaxTags
    /\ IF which = 13 \/ which = 44
       THEN LET skill == Trim(skillsInputVal) IN
            IF skill # <<>>
            THEN /\ skillTags' = addSkillTag(skillTags, skill)
                 /\ skillsHidden' = HiddenOf(skillTags')
                 /\ skillsInputVal' = <<>>
            ELSE UNCHANGED tagVars
       ELSE UNCHANGED tagVars
    /\ UNCHANGED <<ready, uploadVars, parseVars, notifications, OutsideResume>>

\* script.js 161-170: removeSkillTag on the close button of the i-th chip
removeSkillTag(i) ==
    /\ i \in 1..Len(skillTags)
    /\ skillTags' = RemoveAt(skillTags, i)
    /\ skillsHidden' = HiddenOf(skillTags')
    /\ UNCHANGED <<ready, skillsInputVal, uploadVars, parseVars, notifications,
                   OutsideResume>>

----------------------------------------------------------------------------
(* Resume upload *)

NoFile == [name |-> "", size |-> -1]

BytesPerMB == 1024 * 1024

\* script.js 64: (x).toFixed(2) of x = size / 1024 / 1024, as the number of
\* hundredths it prints: the nearest, the larger one on a tie.  The division
\* by a power of two is exact in binary floating point.
ToFixed2(size) == (size * 200 + BytesPerMB) \div (2 * BytesPerMB)

\* the text toFixed(2) returns for that many hundredths
FixedText(n) ==
    ToString(n \div 100) \o "." \o (IF n % 100 < 10 THEN "0" ELSE "") \o ToString(n % 100)

\* script.js 66: fileSize > 5 with fileSize the text of toFixed(2): the
\* text is converted back to the number it prints
ExceedsLimit(hundredths) == hundredths > 5 * 100

\* the user picks a file in the dialog of #resumeUpload (or empties the
\* selection): the browser sets files and dispatches change
SelectFile(f) ==
    /\ ready
    /\ ~changePending
    /\ alerts < MaxAlerts
    /\ Len(parseXhr) < MaxParse
    /\ resumeInput' = f
    /\ changePending' = TRUE
    /\ UNCHANGED <<ready, resumeFileName, alerts, tagVars, parseVars, notifications,
                   OutsideResume>>

\* script.js 60-77: the change handler of #resumeUpload, with parseResume's
\* lines 173-176 (the request is sent)
ResumeChange ==
    /\ ready
    /\ changePending
    /\ changePending' = FALSE
    /\ IF resumeInput = NoFile
       THEN UNCHANGED <<resumeInput, resumeFileName, alerts, parseXhr>>
       ELSE LET fileSize == ToFixed2(resumeInput.size) IN
            IF ExceedsLimit(fileSize)
            THEN /\ alerts' = alerts + 1
                 /\ resumeInput' = NoFile
                 /\ UNCHANGED <<resumeFileName, parseXhr>>
            ELSE /\ resumeFileName' =
                       resumeInput.name \o " (" \o FixedText(fileSize) \o " MB)"
                 /\ parseXhr' = Append(parseXhr, [status |-> "sent", data |-> NoData])
                 /\ UNCHANGED <<resumeInput, alerts>>
    /\ UNCHANGED <<ready, profile, tagVars, notifications, OutsideResume>>

----------------------------------------------------------------------------
(* Resume parsing *)

\* the server answers a parsing request with data
ParseReply(i, data) ==
    /\ i \in 1..Len(parseXhr)
    /\ parseXhr[i].status = "sent"
    /\ parseXhr' = [parseXhr EXCEPT ![i] = [status |-> "replied", data |-> data]]
    /\ UNCHANGED <<ready, profile, tagVars, uploadVars, notifications, OutsideResume>>

\* script.js 182-194: the success callback of parseResume's request
ParseSuccess(i) ==
    /\ i \in 1..Len(parseXhr)
    /\ parseXhr[i].status = "replied"
    /\ LET data == parseXhr[i].data IN
       IF data.success
       THEN /\ Len(notifications) < MaxBanners
            /\ Len(skillTags) + Len(data.skills) <= MaxTags
            /\ profile' = [fullName |-> IF data.name # "" THEN data.name ELSE profile.fullName,
                           email |-> IF data.email # "" THEN data.email ELSE profile.email,
                           phone |-> IF data.phone # "" THEN data.phone ELSE profile.phone]
            /\ IF data.hasSkills
               THEN /\ skillTags' = addSkillTags(skillTags, data.skills)
                    /\ skillsHidden' = IF data.skills = <<>> THEN skillsHidden
                                       ELSE HiddenOf(skillTags')
               ELSE UNCHANGED <<skillTags, skillsHidden>>
            /\ notifications' =
                 showNotification(notifications, "Success!", "Resume parsed successfully.", "success")
       ELSE UNCHANGED <<profile, skillTags, skillsHidden, notifications>>
    /\ parseXhr' = RemoveAt(parseXhr, i)
    /\ UNCHANGED <<ready, skillsInputVal, uploadVars, OutsideResume>>

\* script.js 195-197: the request fails in transport and the error callback runs
ParseError(i) ==
    /\ i \in 1..Len(parseXhr)
    /\ parseXhr[i].status = "sent"
    /\ Len(notifications) < MaxBanners
    /\ notifications' =
         showNotification(notifications, "Error!", "Failed to parse resume.", "error")
    /\ parseXhr' = RemoveAt(parseXhr, i)
    /\ UNCHANGED <<ready, profile, tagVars, uploadVars, OutsideResume>>

----------------------------------------------------------------------------
(* Ajax forms *)

\* form.attr('action') of each ajax form of the page
FormAction(f) == "/" \o f \o "/save"

\* script.js 16-18 and 98-120: both submit handlers of an ajax form, in the
\* order they were bound: the submit button is disabled, then the form is
\* posted.  A form can be submitted again without its button (Enter in a
\* text field of a form without an enabled button is not assumed away).
FormSubmit(f) ==
    /\ ready
    /\ Len(formXhr) < MaxForm
    /\ submitDisabled' = submitDisabled \cup {f}
    /\ formXhr' = Append(formXhr, [url |-> FormAction(f), method |-> "POST",
                                   status |-> "sent", data |-> NoFormData])
    /\ UNCHANGED <<ready, notifications, OutsideForm>>

\* the server answers a form's request with { success, message }
FormReply(i, data) ==
    /\ i \in 1..Len(formXhr)
    /\ formXhr[i].status = "sent"
    /\ formXhr' = [formXhr EXCEPT ![i].status = "replied", ![i].data = data]
    /\ UNCHANGED <<ready, submitDisabled, notifications, OutsideForm>>

\* FormSuccess with the test of line 111 lost: every response is a success
FormSuccessAlways(i) ==
    /\ i \in 1..Len(formXhr)
    /\ formXhr[i].status = "replied"
    /\ Len(notifications) < MaxBanners
    /\ notifications' =
         showNotification(notifications, "Success!", formXhr[i].data.message, "success")
    /\ formXhr' = RemoveAt(formXhr, i)
    /\ UNCHANGED <<ready, submitDisabled, OutsideForm>>

\* script.js 110-116: the success callback of a form's request
FormSuccess(i) ==
    /\ i \in 1..Len(formXhr)
    /\ formXhr[i].status = "replied"
    /\ Len(notifications) < MaxBanners
    /\ LET response == formXhr[i].data IN
       notifications' =
         IF response.success
         THEN showNotification(notifications, "Success!", response.message, "success")
         ELSE showNotification(notifications, "Error!", response.message, "error")
    /\ formXhr' = RemoveAt(formXhr, i)
    /\ UNCHANGED <<ready, submitDisabled, OutsideForm>>

\* script.js 117-119: the request fails in transport and the error callback runs
FormError(i) ==
    /\ i \in 1..Len(formXhr)
    /\ formXhr[i].status = "sent"
    /\ Len(notifications) < MaxBanners
    /\ notifications' =
         showNotification(notifications, "Error!", "Something went wrong. Please try again.", "error")
    /\ formXhr' = RemoveAt(formXhr, i)
    /\ UNCHANGED <<ready, submitDisabled, OutsideForm>>

----------------------------------------------------------------------------
(* Unread-count polling and desktop notifications *)

\* script.js 278-280 and 235-243: the window's load handler calls
\* requestNotificationPermission, which asks the user when nothing is decided
WindowLoad ==
    /\ ~loaded
    /\ loaded' = TRUE
    /\ prompting' = (notifSupported /\ permission = "default")
    /\ UNCHANGED <<ready, notifSupported, permission, pollVars, OutsidePoll>>

\* the user answers the permission prompt (or dismisses it: "default");
\* script.js 237-241 only logs the answer
PermissionAnswer(p) ==
    /\ prompting
    /\ prompting' = FALSE
    /\ permission' = p
    /\ UNCHANGED <<ready, notifSupported, loaded, pollVars, OutsidePoll>>

\* the user changes the site's notification permission in the browser's settings
PermissionChange(p) ==
    /\ notifSupported
    /\ ~prompting
    /\ permission # p
    /\ permission' = p
    /\ UNCHANGED <<ready, notifSupported, prompting, loaded, pollVars, OutsidePoll>>

\* script.js 143 and 217-218: the interval fires and checkNotifications
\* sends its request
checkNotifications ==
    /\ polling
    /\ Len(pollXhr) < MaxPoll
    /\ pollXhr' = Append(pollXhr, [status |-> "sent", count |-> 0])
    /\ UNCHANGED <<ready, browserVars, polling, badge, desktop, OutsidePoll>>

\* the server answers with { count }
PollReply(i, count) ==
    /\ i \in 1..Len(pollXhr)
    /\ pollXhr[i].status = "sent"
    /\ pollXhr' = [pollXhr EXCEPT ![i] = [status |-> "replied", count |-> count]]
    /\ UNCHANGED <<ready, browserVars, polling, badge, desktop, OutsidePoll>>

\* the request fails in transport: $.get was given no error callback
PollFail(i) ==
    /\ i \in 1..Len(pollXhr)
    /\ pollXhr[i].status = "sent"
    /\ pollXhr' = RemoveAt(pollXhr, i)
    /\ UNCHANGED <<ready, browserVars, polling, badge, desktop, OutsidePoll>>

\* script.js 225-228: the desktop notification for a count
DesktopNotification(count) ==
    [title |-> "New Notification",
     body |-> "You have " \o ToString(count) \o " new notifications",
     icon |-> "/static/favicon.ico"]

\* PollCallback with line 224's test of Notification.permission lost
PollCallbackNoPermissionTest(i) ==
    /\ i \in 1..Len(pollXhr)
    /\ pollXhr[i].status = "replied"
    /\ LET data == pollXhr[i] IN
       IF data.count > 0
       THEN /\ badge' = [shown |-> TRUE, text |-> ToString(data.count)]
            /\ Len(desktop) < MaxDesktop
            /\ desktop' = Append(desktop, DesktopNotification(data.count))
       ELSE UNCHANGED <<badge, desktop>>
    /\ pollXhr' = RemoveAt(pollXhr, i)
    /\ UNCHANGED <<ready, browserVars, polling, OutsidePoll>>

\* script.js 218-231: the success callback of checkNotifications' request
PollCallback(i) ==
    /\ i \in 1..Len(pollXhr)
    /\ pollXhr[i].status = "replied"
    /\ LET data == pollXhr[i] IN
       IF data.count > 0
       THEN /\ badge' = [shown |-> TRUE, text |-> ToString(data.count)]
            /\ IF permission = "granted"
               THEN /\ Len(desktop) < MaxDesktop
                    /\ desktop' = Append(desktop, DesktopNotification(data.count))
               ELSE UNCHANGED desktop
       ELSE UNCHANGED <<badge, desktop>>
    /\ pollXhr' = RemoveAt(pollXhr, i)
    /\ UNCHANGED <<ready, browserVars, polling, OutsidePoll>>

\* the user (or the system) closes a desktop notification
DesktopClose(i) ==
    /\ i \in 1..Len(desktop)
    /\ desktop' = RemoveAt(desktop, i)
    /\ UNCHANGED <<ready, browserVars, polling, pollXhr, badge, OutsidePoll>>

----------------------------------------------------------------------------
(* Password strength *)

UpperAZ == {"A", "B", "C", "D", "E", "F", "G", "H", "I", "J", "K", "L", "M",
            "N", "O", "P", "Q", "R", "S", "T", "U", "V", "W", "X", "Y", "Z"}
LowerAZ == {"a", "b", "c", "d", "e", "f", "g", "h", "i", "j", "k", "l", "m",
            "n", "o", "p", "q", "r", "s", "t", "u", "v", "w", "x", "y", "z"}
Digits == {"0", "1", "2", "3", "4", "5", "6", "7", "8", "9"}

\* regex.test(s) for a regex that is one character class: some character
\* of s is in the class
TestClass(class, s) == \E i \in 1..Len(s) : s[i] \in class
TestNotClass(class, s) == \E i \in 1..Len(s) : s[i] \notin class

\* PasswordStrength with line 38 written password.length > 8
PasswordStrengthOffByOne(password) ==
    LET s1 == IF Len(password) > 8 THEN 1 ELSE 0
        s2 == IF TestClass(UpperAZ, password) THEN s1 + 1 ELSE s1
        s3 == IF TestClass(Digits, password) THEN s2 + 1 ELSE s2
        s4 == IF TestNotClass(UpperAZ \cup LowerAZ \cup Digits, password) THEN s3 + 1 ELSE s3
    IN  s4

\* script.js 36-41: let strength = 0 and the four increments
PasswordStrength(password) ==
    LET s1 == IF Len(password) >= 8 THEN 1 ELSE 0
        s2 == IF TestClass(UpperAZ, password) THEN s1 + 1 ELSE s1
        s3 == IF TestClass(Digits, password) THEN s2 + 1 ELSE s2
        s4 == IF TestNotClass(UpperAZ \cup LowerAZ \cup Digits, password) THEN s3 + 1 ELSE s3
    IN  s4

\* script.js 43-44: the arrays indexed by strength (from 0)
strengthText == <<"Very Weak", "Weak", "Fair", "Good", "Strong">>
strengthColor == <<"danger", "warning", "info", "primary", "success">>

\* the user presses a key in #password that appends a character
PasswordType(c) ==
    /\ ~keyupPending
    /\ Len(passwordVal) < MaxPasswordLen
    /\ passwordVal' = Append(passwordVal, c)
    /\ keyupPending' = TRUE
    /\ UNCHANGED <<ready, strengthBadge, emailVars, daysVars, OutsideFields>>

\* the user selects the whole text and presses Delete
PasswordClear ==
    /\ ~keyupPending
    /\ passwordVal # <<>>
    /\ passwordVal' = <<>>
    /\ keyupPending' = TRUE
    /\ UNCHANGED <<ready, strengthBadge, emailVars, daysVars, OutsideFields>>

\* script.js 34-47: the keyup handler of #password (a key released before
\* the handlers are bound is handled by nobody)
PasswordKeyup ==
    /\ keyupPending
    /\ keyupPending' = FALSE
    /\ IF ready
       THEN LET strength == PasswordStrength(passwordVal) IN
            strengthBadge' = [text |-> strengthText[strength + 1],
                              class |-> "badge bg-" \o strengthColor[strength + 1]]
       ELSE UNCHANGED strengthBadge
    /\ UNCHANGED <<ready, passwordVal, emailVars, daysVars, OutsideFields>>

----------------------------------------------------------------------------
(* E-mail validation *)

\* emailRegex without its last [^\s@]+ : ^[^\s@]+@[^\s@]+\.$
emailRegexNoTail ==
    <<[kind |-> "plus", c |-> ""], [kind |-> "char", c |-> "@"],
      [kind |-> "plus", c |-> ""], [kind |-> "char", c |-> "."]>>

\* script.js 23: the regex ^[^\s@]+@[^\s@]+\.[^\s@]+$ as a sequence of
\* tokens: "plus" is [^\s@]+, "char" is one literal character
emailRegex ==
    <<[kind |-> "plus", c |-> ""], [kind |-> "char", c |-> "@"],
      [kind |-> "plus", c |-> ""], [kind |-> "char", c |-> "."],
      [kind |-> "plus", c |-> ""]>>

\* [^\s@]
NotSpaceNotAt(c) == c \notin Whitespace /\ c # "@"

\* a regex of such tokens, anchored at both ends, matches s: by backtracking
\* over the lengths each + can take
RECURSIVE RegexMatches(_, _)
RegexMatches(tokens, s) ==
    IF tokens = <<>> THEN s = <<>>
    ELSE IF s = <<>> THEN FALSE
    ELSE IF Head(tokens).kind = "char"
         THEN Head(s) = Head(tokens).c /\ RegexMatches(Tail(tokens), Tail(s))
         ELSE \E n \in 1..Len(s) :
                /\ \A k \in 1..n : NotSpaceNotAt(s[k])
                /\ RegexMatches(Tail(tokens), SubSeq(s, n + 1, Len(s)))

\* the user puts the focus into the e-mail field
EmailFocus ==
    /\ ~emailFocused
    /\ emailFocused' = TRUE
    /\ UNCHANGED <<ready, emailVal, emailInvalid, emailFeedback, pwVars, daysVars,
                   OutsideFields>>

\* the user types a character at the end of the e-mail field
EmailType(c) ==
    /\ emailFocused
    /\ Len(emailVal) < MaxEmailLen
    /\ emailVal' = Append(emailVal, c)
    /\ UNCHANGED <<ready, emailFocused, emailInvalid, emailFeedback, pwVars, daysVars,
                   OutsideFields>>

\* the user deletes the last character of the e-mail field
EmailBackspace ==
    /\ emailFocused
    /\ emailVal # <<>>
    /\ emailVal' = SubSeq(emailVal, 1, Len(emailVal) - 1)
    /\ UNCHANGED <<ready, emailFocused, emailInvalid, emailFeedback, pwVars, daysVars,
                   OutsideFields>>

\* script.js 21-31: the field loses the focus and its blur handler runs
\* (before the handlers are bound nothing runs)
EmailBlur ==
    /\ emailFocused
    /\ emailFocused' = FALSE
    /\ IF ~ready
       THEN UNCHANGED <<emailInvalid, emailFeedback>>
       ELSE IF emailVal # <<>> /\ ~RegexMatches(emailRegex, emailVal)
       THEN /\ emailInvalid' = TRUE
            /\ emailFeedback' = "Please enter a valid email address."
       ELSE /\ emailInvalid' = FALSE
            /\ UNCHANGED emailFeedback
    /\ UNCHANGED <<ready, emailVal, pwVars, daysVars, OutsideFields>>

----------------------------------------------------------------------------
(* Relative time *)

\* script.js 267: 1000 * 60 * 60 * 24
MsPerDay == 1000 * 60 * 60 * 24

\* An instant is [day, ms]: whole days since an epoch and 0..MsPerDay-1
\* milliseconds into the day, so that the milliseconds of several hundred
\* days need no number beyond 32 bits.

\* script.js 266: Math.abs(now - date), as whole days and milliseconds
AbsDiff(a, b) ==
    LET later == IF a.day > b.day \/ (a.day = b.day /\ a.ms >= b.ms) THEN a ELSE b
        earlier == IF later = a THEN b ELSE a
    IN  IF later.ms >= earlier.ms
        THEN [day |-> later.day - earlier.day, ms |-> later.ms - earlier.ms]
        ELSE [day |-> later.day - earlier.day - 1, ms |-> later.ms - earlier.ms + MsPerDay]

\* CeilDays with line 267 written Math.floor
FloorDays(diffTime) == diffTime.day

\* script.js 267: Math.ceil(diffTime / MsPerDay)
CeilDays(diffTime) == IF diffTime.ms > 0 THEN diffTime.day + 1 ELSE diffTime.day

\* script.js 263-275: daysAgo, for a date string that parses to the
\* instant date when the clock shows now
daysAgo(date, now) ==
    LET diffTime == AbsDiff(now, date)
        diffDays == CeilDays(diffTime)
    IN  IF diffDays = 0 THEN "Today"
        ELSE IF diffDays = 1 THEN "Yesterday"
        ELSE IF diffDays < 7 THEN ToString(diffDays) \o " days ago"
        ELSE IF diffDays < 30 THEN ToString(diffDays \div 7) \o " weeks ago"
        ELSE IF diffDays < 365 THEN ToString(diffDays \div 30) \o " months ago"
        ELSE ToString(diffDays \div 365) \o " years ago"

\* a caller evaluates daysAgo(dateString) for the date and the clock of
\* the state
CallDaysAgo ==
    /\ daysAgoOut = ""
    /\ daysAgoOut' = daysAgo(dateArg, nowTime)
    /\ UNCHANGED <<ready, dateArg, nowTime, pwVars, emailVars, OutsideFields>>

----------------------------------------------------------------------------
(* Document ready *)

\* script.js 3-145: the ready callback binds the handlers, declares
\* currentPage and, with the permission granted, starts the polling
DocumentReady ==
    /\ ~ready
    /\ ready' = TRUE
    /\ currentPage' = 1
    /\ polling' = (notifSupported /\ permission = "granted")
    /\ UNCHANGED <<loadMore, jobsXhr, jobsLog, tagVars, uploadVars, parseVars,
                   notifications, formVars, browserVars, pollXhr, badge, desktop,
                   fieldVars>>

----------------------------------------------------------------------------
(* The state when the page has loaded its markup, before document ready *)

InitJobs ==
    /\ currentPage = 0
    /\ loadMore = [present |-> TRUE, disabled |-> FALSE, html |-> ServerLabel]
    /\ jobsXhr = <<>>
    /\ jobsLog = <<>>

InitResume ==
    /\ skillsInputVal = <<>>
    /\ skillTags = <<>>
    /\ skillsHidden = <<>>
    /\ resumeInput = NoFile
    /\ changePending = FALSE
    /\ resumeFileName = ""
    /\ alerts = 0
    /\ parseXhr = <<>>
    /\ profile = [fullName |-> "", email |-> "", phone |-> ""]
    /\ notifications = <<>>

InitForm ==
    /\ formXhr = <<>>
    /\ submitDisabled = {}

\* a browser with the Notification API in which the user has decided nothing
InitBrowser ==
    /\ notifSupported = TRUE
    /\ permission = "default"

\* any browser: without the Notification API, or with it in any of the
\* three states of the permission
InitAnyBrowser ==
    /\ notifSupported \in BOOLEAN
    /\ permission \in {"default", "granted", "denied"}
    /\ ~notifSupported => permission = "default"

InitPoll ==
    /\ prompting = FALSE
    /\ loaded = FALSE
    /\ polling = FALSE
    /\ pollXhr = <<>>
    /\ badge = [shown |-> FALSE, text |-> ""]
    /\ desktop = <<>>

InitFields ==
    /\ passwordVal = <<>>
    /\ keyupPending = FALSE
    /\ strengthBadge = [text |-> "", class |-> ""]
    /\ emailVal = <<>>
    /\ emailFocused = FALSE
    /\ emailInvalid = FALSE
    /\ emailFeedback = ""
    /\ daysAgoOut = ""

\* no call of daysAgo is pending
InitNoDate ==
    /\ dateArg = [day |-> 0, ms |-> 0]
    /\ nowTime = [day |-> 0, ms |-> 0]

\* daysAgo is about to be called with a date up to MaxElapsedDays days
\* before or after the clock's instant
InitAnyDate ==
    /\ dateArg \in [day : 0..(2 * MaxElapsedDays), ms : MsSamples]
    /\ nowTime \in [day : {MaxElapsedDays}, ms : MsSamples]

InitPage ==
    /\ ready = FALSE
    /\ InitJobs
    /\ InitResume
    /\ InitForm
    /\ InitPoll
    /\ InitFields

Init == InitPage /\ InitBrowser /\ InitNoDate

NextJobs ==
    \/ DocumentReady
    \/ LoadMoreClick
    \/ \E i \in 1..Len(jobsXhr), n \in 0..MaxJobs : JobsReply(i, n)
    \/ \E i \in 1..Len(jobsXhr) : JobsFail(i)
    \/ \E i \in 1..Len(jobsXhr) : JobsCallback(i)

SpecJobs == Init /\ [][NextJobs]_vars

NextResume ==
    \/ DocumentReady
    \/ \E v \in TypedSkills : TypeSkill(v)
    \/ \E which \in {13, 44, 97} : SkillKeypress(which)
    \/ \E i \in 1..Len(skillTags) : removeSkillTag(i)
    \/ \E f \in Files \cup {NoFile} : SelectFile(f)
    \/ ResumeChange
    \/ \E i \in 1..Len(parseXhr), data \in ParseResponses : ParseReply(i, data)
    \/ \E i \in 1..Len(parseXhr) : ParseSuccess(i)
    \/ \E i \in 1..Len(parseXhr) : ParseError(i)
    \/ \E i \in 1..Len(notifications) : BannerClose(i)

SpecResume == Init /\ [][NextResume]_vars

NextForm ==
    \/ DocumentReady
    \/ \E f \in Forms : FormSubmit(f)
    \/ \E i \in 1..Len(formXhr), data \in FormResponses : FormReply(i, data)
    \/ \E i \in 1..Len(formXhr) : FormSuccess(i)
    \/ \E i \in 1..Len(formXhr) : FormError(i)
    \/ \E i \in 1..Len(notifications) : BannerClose(i)

SpecForm == Init /\ [][NextForm]_vars

NextPoll ==
    \/ DocumentReady
    \/ WindowLoad
    \/ \E p \in {"default", "granted", "denied"} : PermissionAnswer(p)
    \/ \E p \in {"default", "granted", "denied"} : PermissionChange(p)
    \/ checkNotifications
    \/ \E i \in 1..Len(pollXhr), count \in 0..MaxCount : PollReply(i, count)
    \/ \E i \in 1..Len(pollXhr) : PollFail(i)
    \/ \E i \in 1..Len(pollXhr) : PollCallback(i)
    \/ \E i \in 1..Len(desktop) : DesktopClose(i)

\* the page in any browser
InitPollAnyBrowser == InitPage /\ InitAnyBrowser /\ InitNoDate

SpecPoll == InitPollAnyBrowser /\ [][NextPoll]_vars

NextPassword ==
    \/ DocumentReady
    \/ \E c \in PasswordChars : PasswordType(c)
    \/ PasswordClear
    \/ PasswordKeyup

SpecPassword == Init /\ [][NextPassword]_vars

NextEmail ==
    \/ DocumentReady
    \/ EmailFocus
    \/ \E c \in EmailChars : EmailType(c)
    \/ EmailBackspace
    \/ EmailBlur

SpecEmail == Init /\ [][NextEmail]_vars

NextDaysAgo == CallDaysAgo

\* the page with a call of daysAgo at hand
InitDaysAgo == InitPage /\ InitBrowser /\ InitAnyDate

SpecDaysAgo == InitDaysAgo /\ [][NextDaysAgo]_vars

----------------------------------------------------------------------------
(* Claims about load more *)

\* C3: the page counter starts at 1 and every click adds exactly one to it,
\* so the k-th click disables the control and asks for page k+1; a response
\* with at least one job re-enables the control with the label Load More, a
\* response with no job removes it, and once removed it stays removed and
\* no further jobs request is issued.
C3_LoadMoreCounter ==
    [][ /\ (~ready /\ ready') => currentPage' = 1
        /\ (jobsLog' # jobsLog) =>
              /\ currentPage' = currentPage + 1
              /\ jobsLog' = Append(jobsLog, Len(jobsLog) + 2)
              /\ loadMore'.present /\ loadMore'.disabled
        /\ \A i \in 1..Len(jobsXhr) :
              (jobsXhr[i].status = "replied" /\ jobsXhr' = RemoveAt(jobsXhr, i)) =>
                 IF jobsXhr[i].jobs >= 1
                 THEN loadMore' = [present |-> TRUE, disabled |-> FALSE, html |-> "Load More"]
                 ELSE ~loadMore'.present
        /\ ~loadMore.present => (~loadMore'.present /\ jobsLog' = jobsLog)
      ]_vars

\* C3's case: three clicks were answered, the first two with jobs, the
\* third with none, and the control is gone.
C3_Witness ==
    /\ ~loadMore.present
    /\ jobsLog = <<2, 3, 4>>
    /\ jobsXhr = <<>>

\* C10: with a disabled control receiving no clicks, at most one jobs
\* request is in flight, the control is disabled while one is, the pages
\* requested are 2, 3, 4, ... in order without gap or repetition, and a
\* request that failed in transport leaves the control disabled.
C10_OneRequestInFlight ==
    /\ Cardinality(ActiveJobs) <= 1
    /\ ActiveJobs # {} => (loadMore.present /\ loadMore.disabled)
    /\ \A k \in 1..Len(jobsLog) : jobsLog[k] = k + 1
    /\ (\E i \in 1..Len(jobsXhr) : jobsXhr[i].status = "error") =>
          (loadMore.present /\ loadMore.disabled /\ ~ENABLED LoadMoreClick)

\* C10's case: the third request failed in transport after two were answered.
C10_Witness ==
    /\ jobsLog = <<2, 3, 4>>
    /\ \E i \in 1..Len(jobsXhr) : jobsXhr[i].status = "error" /\ jobsXhr[i].page = 4

----------------------------------------------------------------------------
(* Claims about the skill tags, the resume upload and its parsing *)

\* the text a chip shows: its text content without the surrounding blanks
ChipLabel(text) == Trim(text)

\* C1: after any additions (keypress or parsed skills) and removals of
\* tags, the hidden skills field is the comma-join of the texts of the
\* visible chips in display order.
C1_HiddenIsJoinedChips ==
    skillsHidden = Join([i \in 1..Len(skillTags) |-> ChipLabel(skillTags[i])])

\* C2: a selected file of more than 5 * 1024 * 1024 bytes is rejected with
\* an alert, the input is cleared and no parsing request is issued; any
\* other file has its name and size displayed and exactly one parsing
\* request issued; no parsing request is issued otherwise.
C2_SizeCheckBeforeParsing ==
    [][ /\ (changePending /\ ~changePending' /\ resumeInput # NoFile) =>
              IF resumeInput.size > 5 * 1024 * 1024
              THEN /\ alerts' = alerts + 1
                   /\ resumeInput' = NoFile
                   /\ parseXhr' = parseXhr
              ELSE /\ alerts' = alerts
                   /\ resumeFileName' # ""
                   /\ parseXhr' = Append(parseXhr, [status |-> "sent", data |-> NoData])
        /\ Len(parseXhr') > Len(parseXhr) =>
              (changePending /\ resumeInput # NoFile /\ resumeInput.size <= 5 * 1024 * 1024)
      ]_vars

\* C4: every completed parsing call shows exactly one banner: the success
\* banner (with the fields and tags filled in) when the response's success
\* flag is true, the fixed error banner on a transport failure and on a
\* response whose success flag is false.
C4_OneBannerPerParse ==
    [][ \A i \in 1..Len(parseXhr) :
          (Len(parseXhr') < Len(parseXhr) /\ parseXhr' = RemoveAt(parseXhr, i)) =>
             IF parseXhr[i].status = "replied" /\ parseXhr[i].data.success
             THEN /\ notifications' =
                       <<[type |-> "success", title |-> "Success!",
                          message |-> "Resume parsed successfully."]>> \o notifications
                  /\ Len(skillTags') = Len(skillTags) + Len(parseXhr[i].data.skills)
             ELSE notifications' =
                       <<[type |-> "error", title |-> "Error!",
                          message |-> "Failed to parse resume."]>> \o notifications
      ]_vars

----------------------------------------------------------------------------
(* Claims about ajax forms *)

\* C5: a submission of an ajax form issues one POST to the form's action
\* URL; when the call completes exactly one banner is shown: a success
\* banner with the server's message for a response whose success flag is
\* true, an error banner with the server's message for a response whose
\* flag is false, an error banner with the fixed message on a transport
\* failure.
C5_OneBannerPerSubmission ==
    [][ /\ Len(formXhr') > Len(formXhr) =>
              \E f \in Forms :
                 /\ formXhr' = Append(formXhr, [url |-> FormAction(f), method |-> "POST",
                                                status |-> "sent", data |-> NoFormData])
                 /\ f \in submitDisabled'
        /\ \A i \in 1..Len(formXhr) :
              (Len(formXhr') < Len(formXhr) /\ formXhr' = RemoveAt(formXhr, i)) =>
                 notifications' =
                   <<IF formXhr[i].status = "replied"
                     THEN IF formXhr[i].data.success
                          THEN [type |-> "success", title |-> "Success!",
                                message |-> formXhr[i].data.message]
                          ELSE [type |-> "error", title |-> "Error!",
                                message |-> formXhr[i].data.message]
                     ELSE [type |-> "error", title |-> "Error!",
                           message |-> "Something went wrong. Please try again."]>>
                   \o notifications
        /\ Len(notifications') > Len(notifications) => Len(formXhr') < Len(formXhr)
      ]_vars

\* C5's case: one submission was refused by the server with its message
\* and a later one failed in transport; both banners are on the page.
C5_Witness ==
    /\ formXhr = <<>>
    /\ notifications =
         <<[type |-> "error", title |-> "Error!",
            message |-> "Something went wrong. Please try again."],
           [type |-> "error", title |-> "Error!", message |-> "Name is required."]>>

----------------------------------------------------------------------------
(* Claims about the polling *)

\* C6: the polling is started only at document ready and only with the
\* permission granted at that moment, and requests are sent only while it
\* is set; a response with count > 0 shows the badge with the count and,
\* with the permission granted at that moment, raises exactly one desktop
\* notification whose body carries the count; a response with count <= 0
\* raises none; no desktop notification is raised without the permission.
C6_PollingAndDesktopNotifications ==
    [][ /\ (~ready /\ ready') => (polling' <=> (notifSupported /\ permission = "granted"))
        /\ polling' # polling => (~ready /\ ready')
        /\ Len(pollXhr') > Len(pollXhr) => polling
        /\ \A i \in 1..Len(pollXhr) :
              (pollXhr[i].status = "replied" /\ pollXhr' = RemoveAt(pollXhr, i)) =>
                 IF pollXhr[i].count > 0
                 THEN /\ badge' = [shown |-> TRUE, text |-> ToString(pollXhr[i].count)]
                      /\ IF permission = "granted"
                         THEN desktop' = Append(desktop,
                                [title |-> "New Notification",
                                 body |-> "You have " \o ToString(pollXhr[i].count)
                                          \o " new notifications",
                                 icon |-> "/static/favicon.ico"])
                         ELSE desktop' = desktop
                 ELSE desktop' = desktop /\ badge' = badge
        /\ Len(desktop') > Len(desktop) => permission = "granted"
      ]_vars

\* C6's case: a poll answered with count 2 after the permission was taken
\* back showed the badge and raised nothing; an earlier one raised a
\* desktop notification.
C6_Witness ==
    /\ polling
    /\ permission = "denied"
    /\ badge = [shown |-> TRUE, text |-> "2"]
    /\ Len(desktop) = 1
    /\ desktop[1].body = "You have 1 new notifications"

----------------------------------------------------------------------------
(* Claims about the form fields *)

\* the number of the four criteria a password satisfies
CriteriaMet(s) ==
    Cardinality({k \in 1..4 :
        \/ k = 1 /\ Len(s) >= 8
        \/ k = 2 /\ \E i \in 1..Len(s) : s[i] \in UpperAZ
        \/ k = 3 /\ \E i \in 1..Len(s) : s[i] \in Digits
        \/ k = 4 /\ \E i \in 1..Len(s) : s[i] \notin (UpperAZ \cup LowerAZ \cup Digits)})

\* C7: on keyup the strength shown is the number of satisfied criteria
\* among length >= 8, an upper-case letter A-Z, a digit, a character that
\* is neither letter nor digit: the badge's text is that entry of (Very
\* Weak, Weak, Fair, Good, Strong) and its colour that entry of (danger,
\* warning, info, primary, success).
C7_StrengthIsCriteriaCount ==
    [][ (ready /\ keyupPending /\ ~keyupPending') =>
          LET n == CriteriaMet(passwordVal) IN
          /\ n \in 0..4
          /\ strengthBadge'.text =
               <<"Very Weak", "Weak", "Fair", "Good", "Strong">>[n + 1]
          /\ strengthBadge'.class =
               "badge bg-" \o <<"danger", "warning", "info", "primary", "success">>[n + 1]
      ]_vars

\* C7's case: eight characters with an upper-case letter, a digit and a
\* special character are shown as Strong.
C7_Witness ==
    /\ ~keyupPending
    /\ passwordVal = <<"A", "a", "a", "a", "a", "a", "1", "!">>
    /\ strengthBadge = [text |-> "Strong", class |-> "badge bg-success"]

\* s is one or more characters that are neither blank nor @, an @, one or
\* more such characters, a dot, one or more such characters
LooksLikeEmail(s) ==
    \E i \in 2..Len(s), j \in 4..(Len(s) - 1) :
        /\ i + 1 < j
        /\ s[i] = "@"
        /\ s[j] = "."
        /\ \A k \in 1..Len(s) : k # i => (s[k] # " " /\ s[k] # "@")

\* C9: on blur of an e-mail field holding s, the invalid state is cleared
\* when s is empty or has the form above, and set, with the fixed message
\* shown, when s is non-empty and has not; the outcome depends on s alone.
C9_BlurValidatesEmail ==
    [][ (ready /\ emailFocused /\ ~emailFocused') =>
          IF emailVal = <<>> \/ LooksLikeEmail(emailVal)
          THEN ~emailInvalid'
          ELSE emailInvalid' /\ emailFeedback' = "Please enter a valid email address."
      ]_vars

\* C9's case: a field marked invalid was corrected to a@a.a and its
\* invalid state cleared on blur.
C9_Witness ==
    /\ ~emailFocused
    /\ emailVal = <<"a", "@", "a", ".", "a">>
    /\ ~emailInvalid
    /\ emailFeedback = "Please enter a valid email address."

----------------------------------------------------------------------------
(* Claims about the relative time *)

\* the instant t moved d days later
PlusDays(t, d) == [day |-> t.day + d, ms |-> t.ms]

\* instant a is not later than instant b
NotLater(a, b) == a.day < b.day \/ (a.day = b.day /\ a.ms <= b.ms)

\* at most d whole days lie between the date and the clock
WithinDays(d) ==
    /\ NotLater(nowTime, PlusDays(dateArg, d))
    /\ NotLater(dateArg, PlusDays(nowTime, d))

\* C8: with d the elapsed time between the date and now rounded up to
\* whole days, daysAgo returns Today for d = 0, Yesterday for d = 1,
\* "d days ago" for 2..6, "floor(d/7) weeks ago" for 7..29, "floor(d/30)
\* months ago" for 30..364 and "floor(d/365) years ago" from 365.
C8_RelativeTime ==
    daysAgoOut # "" =>
      LET d == CHOOSE n \in 0..(MaxElapsedDays + 1) :
                  WithinDays(n) /\ (n > 0 => ~WithinDays(n - 1))
      IN  daysAgoOut =
            CASE d = 0 -> "Today"
              [] d = 1 -> "Yesterday"
              [] d >= 2 /\ d <= 6 -> ToString(d) \o " days ago"
              [] d >= 7 /\ d <= 29 -> ToString(d \div 7) \o " weeks ago"
              [] d >= 30 /\ d <= 364 -> ToString(d \div 30) \o " months ago"
              [] d >= 365 -> ToString(d \div 365) \o " years ago"

\* C8's case: a date 399 days and one millisecond back is "1 years ago".
C8_Witness ==
    /\ daysAgoOut = "1 years ago"
    /\ nowTime = [day |-> MaxElapsedDays, ms |-> 1]
    /\ dateArg = [day |-> MaxElapsedDays - 399, ms |-> 0]

====
